---- MODULE Spec2Model ----
(***************************************************************************)
(* A model of the computation graph of solution.py: nodes (Placeholder,    *)
(* Variable, AddOperation, MultiplyOperation), one Graph object with its   *)
(* node list V and its topological order, and the module-level             *)
(* _active_graph reference set by the graph's context manager.             *)
(*                                                                         *)
(* A node is identified by its position in V: a constructor that raises    *)
(* leaves no object behind, so every node a caller can hold is registered. *)
(* A Python value that may be None (or an attribute that may be absent) is *)
(* the empty tuple when None/absent and <<v>> when set to v.               *)
(***************************************************************************)
EXTENDS Integers, Sequences, FiniteSets, TLC

\* Largest number of nodes registered into the graph in Spec.
MaxNodes == 3

\* The scalars a caller assigns to leaves in Spec.
Values == {2, 3}

\* The scalars a caller assigns to leaves in SpecExample (5, 3, 2, 3 among them).
ExampleValues == {2, 3, 5}

\* Depth at which the interpreter stops a recursion (RecursionError); any
\* depth larger than the longest acyclic path classifies the outcomes alike.
RecursionLimit == MaxNodes + 6

VARIABLES
    V,             \* Graph.V: the registered nodes, in registration order
    order,         \* Graph.order: None or <<the list>>
    _active_graph, \* module-level _active_graph: None or <<G>>
    kind,          \* kind[n]: the class of node n
    input_lst,     \* input_lst[n]: Node.input_lst
    output_lst,    \* output_lst[n]: Node.output_lst
    value,         \* value[n]: Node.value, None or <<v>>
    derivative,    \* derivative[n]: Node.derivative, absent (None) or <<d>>
    visited,       \* visited[n]: Node.visited
    last           \* the last call of the caller: its name, how it ended, what it returned

vars == <<V, order, _active_graph, kind, input_lst, output_lst, value,
          derivative, visited, last>>

None == << >>
Some(x) == <<x>>
G == "graph"

LeafKinds == {"Placeholder", "Variable"}
OperationKinds == {"AddOperation", "MultiplyOperation"}
Constructors == LeafKinds \cup OperationKinds

Nodes == 1..Len(V)

\* isinstance(node, BinaryOperation)
IsBinaryOperation(n) == kind[n] \in OperationKinds

\* Python's truth value of Graph.order: None and the empty list are both false.
Truthy(o) == o # None /\ Len(o[1]) > 0

Reverse(s) == [i \in 1..Len(s) |-> s[Len(s) + 1 - i]]

Call(op, outcome, ret) == [op |-> op, outcome |-> outcome, ret |-> ret]

\* A call that raised before it changed anything.
Raise(op, exc) ==
    /\ last' = Call(op, exc, None)
    /\ UNCHANGED <<V, order, _active_graph, kind, input_lst, output_lst,
                   value, derivative, visited>>

(***************************************************************************)
(* Construction and registration.                                          *)
(***************************************************************************)

\* Graph.append raises when the order is already there.
append_raises == Truthy(order)

\* Node.__init__ of a node of class k with initial value v and inputs ins:
\* the empty lists, value None, registration through _active_graph.append,
\* then what the subclass constructor adds (the inputs, the back-edges, the
\* initial value).
Node__init__(k, v, ins) ==
    IF _active_graph = None
    THEN Raise(k, "AttributeError")
    ELSE IF append_raises
    THEN Raise(k, "ValueError")
    ELSE LET self == Len(V) + 1
             outs0 == Append(output_lst, << >>)
             outs1 == IF Len(ins) >= 1
                      THEN [outs0 EXCEPT ![ins[1]] = Append(@, self)]
                      ELSE outs0
             outs2 == IF Len(ins) >= 2
                      THEN [outs1 EXCEPT ![ins[2]] = Append(@, self)]
                      ELSE outs1
         IN  /\ V' = Append(V, self)
             /\ visited' = Append(visited, FALSE)
             /\ kind' = Append(kind, k)
             /\ input_lst' = Append(input_lst, ins)
             /\ output_lst' = outs2
             /\ value' = Append(value, v)
             /\ derivative' = Append(derivative, None)
             /\ last' = Call(k, "ok", None)
             /\ UNCHANGED <<order, _active_graph>>

Placeholder == Node__init__("Placeholder", None, << >>)

Variable(initial_value) == Node__init__("Variable", initial_value, << >>)

AddOperation(a, b) == Node__init__("AddOperation", None, <<a, b>>)

MultiplyOperation(a, b) == Node__init__("MultiplyOperation", None, <<a, b>>)

set_value(n, v) ==
    /\ kind[n] \in LeafKinds
    /\ value' = [value EXCEPT ![n] = Some(v)]
    /\ last' = Call("set_value", "ok", None)
    /\ UNCHANGED <<V, order, _active_graph, kind, input_lst, output_lst,
                   derivative, visited>>

(***************************************************************************)
(* The graph's context manager.                                            *)
(***************************************************************************)

__enter__ ==
    /\ _active_graph' = Some(G)
    /\ last' = Call("__enter__", "ok", None)
    /\ UNCHANGED <<V, order, kind, input_lst, output_lst, value, derivative,
                   visited>>

\* The slip of clearing _active_graph on a normal exit only.
exit_active_graph_normal_only(exc_type) ==
    IF exc_type = "ok" THEN None ELSE _active_graph

\* What __exit__ leaves in _active_graph, given the exception (or "ok") the
\* block ended with.
exit_active_graph(exc_type) == None

\* __exit__ returns None, so an exception that ended the block goes on to
\* the caller.
__exit__(exc_type) ==
    /\ _active_graph' = exit_active_graph(exc_type)
    /\ last' = Call("__exit__", exc_type, None)
    /\ UNCHANGED <<V, order, kind, input_lst, output_lst, value, derivative,
                   visited>>

(***************************************************************************)
(* The topological order.                                                  *)
(***************************************************************************)

RECURSIVE dfs(_, _, _), dfs_neighbors(_, _, _, _)

\* dfs(node) at recursion depth `depth`; st holds the stack, the visited
\* flags and whether the recursion limit was hit.
dfs(node, st, depth) ==
    IF depth > RecursionLimit
    THEN [st EXCEPT !.err = TRUE]
    ELSE LET r == dfs_neighbors(node, 1, st, depth)
         IN  IF r.err
             THEN r
             ELSE [stack |-> Append(r.stack, node),
                   visited |-> [r.visited EXCEPT ![node] = TRUE],
                   err |-> FALSE]

\* The loop of dfs over node.output_lst, from its i-th element on.
dfs_neighbors(node, i, st, depth) ==
    IF st.err \/ i > Len(output_lst[node])
    THEN st
    ELSE LET neighbor == output_lst[node][i]
             st2 == IF st.visited[neighbor]
                    THEN st
                    ELSE dfs(neighbor, st, depth + 1)
         IN  dfs_neighbors(node, i + 1, st2, depth)

RECURSIVE dfs_seeds(_, _)

\* The loop over self.V, from its i-th element on.
dfs_seeds(i, st) ==
    IF st.err \/ i > Len(V)
    THEN st
    ELSE dfs_seeds(i + 1, IF st.visited[V[i]] THEN st ELSE dfs(V[i], st, 1))

\* The slip of leaving the DFS stack as it is (consumers first).
stack_to_order_unreversed(stack) == stack

\* The order made of the DFS stack.
stack_to_order(stack) == Reverse(stack)

\* _calc_topological_order: the order, the visited flags it leaves, and
\* whether it raised (the order is then not assigned).
_calc_topological_order ==
    LET r == dfs_seeds(1, [stack |-> << >>, visited |-> visited, err |-> FALSE])
    IN  [order |-> stack_to_order(r.stack), visited |-> r.visited, err |-> r.err]

(***************************************************************************)
(* The forward pass.                                                       *)
(***************************************************************************)

\* node.forward() under the values val: the values after it and whether it
\* raised (None as an operand of + or * is a TypeError).
Node_forward(n, val) ==
    IF ~IsBinaryOperation(n)
    THEN [value |-> val, err |-> FALSE]
    ELSE LET a == val[input_lst[n][1]]
             b == val[input_lst[n][2]]
         IN  IF a = None \/ b = None
             THEN [value |-> val, err |-> TRUE]
             ELSE [value |-> [val EXCEPT ![n] =
                        Some(IF kind[n] = "AddOperation"
                             THEN a[1] + b[1]
                             ELSE a[1] * b[1])],
                   err |-> FALSE]

RECURSIVE forward_loop(_, _, _)

\* The loop of Graph.forward over the order ord, from its i-th element on.
forward_loop(ord, i, st) ==
    IF st.err \/ i > Len(ord)
    THEN st
    ELSE forward_loop(ord, i + 1, Node_forward(ord[i], st.value))

\* The slip of returning the value of the first node of the order.
forward_return_first(ord, val) == val[ord[1]]

\* What Graph.forward returns: the value of the last node of the order.
forward_return(ord, val) == val[ord[Len(ord)]]

forward ==
    LET calc == _calc_topological_order
        raised == ~Truthy(order) /\ calc.err
        ord == IF Truthy(order) THEN order[1] ELSE calc.order
        run == forward_loop(ord, 1, [value |-> value, err |-> FALSE])
    IN  /\ visited' = IF Truthy(order) THEN visited ELSE calc.visited
        /\ order' = IF raised THEN order ELSE Some(ord)
        /\ value' = IF raised THEN value ELSE run.value
        /\ last' = IF raised THEN Call("forward", "RecursionError", None)
                   ELSE IF run.err THEN Call("forward", "TypeError", None)
                   ELSE IF Len(ord) = 0 THEN Call("forward", "IndexError", None)
                   ELSE Call("forward", "ok", forward_return(ord, run.value))
        /\ UNCHANGED <<V, _active_graph, kind, input_lst, output_lst, derivative>>

(***************************************************************************)
(* The backward pass.                                                      *)
(***************************************************************************)

\* The slip of d(a*b)/da = a: the node's own value instead of the other's.
partial_derivative_own(n, node, val) ==
    IF kind[n] = "AddOperation" THEN Some(1) ELSE val[node]

\* AddOperation.partial_derivative / MultiplyOperation.partial_derivative of
\* operation n with respect to node, under the values val: None or <<p>>.
partial_derivative(n, node, val) ==
    IF kind[n] = "AddOperation"
    THEN Some(1)
    ELSE LET a == input_lst[n][1]
             b == input_lst[n][2]
             other_node == IF node = b THEN a ELSE b
         IN  val[other_node]

\* The slip of summing the contribution into a derivative already there.
chain_rule_accumulate(old, p, d) ==
    IF old = None THEN Some(p * d) ELSE Some(old[1] + p * d)

\* The derivative the chain rule assigns to an input whose derivative was
\* old, from the partial derivative p and the operation's own derivative d.
chain_rule(old, p, d) == Some(p * d)

RECURSIVE BinaryOperation_backward(_, _, _)

\* BinaryOperation.backward of operation n: the loop over its input_lst,
\* from the i-th element on.  Reading an absent self.derivative is an
\* AttributeError, a None partial derivative as a factor a TypeError.
BinaryOperation_backward(n, i, st) ==
    IF st.exc # "ok" \/ i > Len(input_lst[n])
    THEN st
    ELSE LET node == input_lst[n][i]
             p == partial_derivative(n, node, value)
             d == st.derivative[n]
         IN  IF d = None
             THEN [st EXCEPT !.exc = "AttributeError"]
             ELSE IF p = None
             THEN [st EXCEPT !.exc = "TypeError"]
             ELSE BinaryOperation_backward(n, i + 1,
                      [st EXCEPT !.derivative[node] =
                           chain_rule(st.derivative[node], p[1], d[1])])

RECURSIVE backward_loop(_, _, _)

\* The loop of Graph.backward over reversed(order): from position i down.
backward_loop(ord, i, st) ==
    IF st.exc # "ok" \/ i < 1
    THEN st
    ELSE backward_loop(ord, i - 1,
             IF IsBinaryOperation(ord[i])
             THEN BinaryOperation_backward(ord[i], 1, st)
             ELSE st)

\* The slip of leaving the seed out.
backward_seed_missing(ord, der) == der

\* The derivatives after the seed: the last node of the order gets 1.
backward_seed(ord, der) == [der EXCEPT ![ord[Len(ord)]] = Some(1)]

backward ==
    IF order = None
    THEN Raise("backward", "TypeError")
    ELSE IF Len(order[1]) = 0
    THEN Raise("backward", "IndexError")
    ELSE LET ord == order[1]
             run == backward_loop(ord, Len(ord),
                        [derivative |-> backward_seed(ord, derivative),
                         exc |-> "ok"])
         IN  /\ derivative' = run.derivative
             /\ last' = Call("backward", run.exc, None)
             /\ UNCHANGED <<V, order, _active_graph, kind, input_lst,
                            output_lst, value, visited>>

Init ==
    /\ V = << >>
    /\ order = None
    /\ _active_graph = None
    /\ kind = << >>
    /\ input_lst = << >>
    /\ output_lst = << >>
    /\ value = << >>
    /\ derivative = << >>
    /\ visited = << >>
    /\ last = Call("Graph", "ok", None)

Next ==
    \/ __enter__
    \/ \E exc_type \in {"ok", last.outcome} : __exit__(exc_type)
    \/ Len(V) < MaxNodes /\ Placeholder
    \/ \E v \in {None} \cup {Some(x) : x \in Values} :
           Len(V) < MaxNodes /\ Variable(v)
    \/ \E a, b \in Nodes : Len(V) < MaxNodes /\ AddOperation(a, b)
    \/ \E a, b \in Nodes : Len(V) < MaxNodes /\ MultiplyOperation(a, b)
    \/ \E n \in Nodes, v \in Values : set_value(n, v)
    \/ forward
    \/ backward

Spec == Init /\ [][Next]_vars

(***************************************************************************)
(* The demonstration script: J = d * (a + b * c).  The graph is built as   *)
(* the script builds it; each leaf is then assigned once, in any order and *)
(* with any of ExampleValues, with forward() and backward() called at any  *)
(* point in between.                                                       *)
(***************************************************************************)

ExampleKinds ==
    <<"Variable", "Variable", "Variable", "Variable",
      "MultiplyOperation", "AddOperation", "MultiplyOperation">>

ExampleInputs ==
    << << >>, << >>, << >>, << >>, <<2, 3>>, <<1, 5>>, <<4, 6>> >>

\* The graph of the script is built: a, b, c, d, u, v, J are nodes 1..7.
ExampleGraph == kind = ExampleKinds /\ input_lst = ExampleInputs

NextExample ==
    \/ Len(V) = 0 /\ _active_graph = None /\ __enter__
    \/ _active_graph # None /\ Len(V) < 4 /\ Variable(None)
    \/ Len(V) = 4 /\ MultiplyOperation(2, 3)
    \/ Len(V) = 5 /\ AddOperation(1, 5)
    \/ Len(V) = 6 /\ MultiplyOperation(4, 6)
    \/ Len(V) = 7 /\ _active_graph # None /\ __exit__("ok")
    \/ \E n \in 1..4, v \in ExampleValues :
           /\ Len(V) = 7 /\ _active_graph = None
           /\ value[n] = None
           /\ set_value(n, v)
    \/ Len(V) = 7 /\ _active_graph = None /\ forward
    \/ Len(V) = 7 /\ _active_graph = None /\ backward

SpecExample == Init /\ [][NextExample]_vars

(***************************************************************************)
(* A caller that wires a feedback edge into the public edge lists.         *)
(***************************************************************************)

Inputs(n) == {input_lst[n][i] : i \in 1..Len(input_lst[n])}

Consumers(n) == {output_lst[n][i] : i \in 1..Len(output_lst[n])}

RECURSIVE InputClosure(_, _)
InputClosure(S, k) ==
    IF k = 0 THEN S
    ELSE InputClosure(S \cup UNION {Inputs(m) : m \in S}, k - 1)

\* The nodes n depends on, directly or not.
Ancestors(n) == InputClosure(Inputs(n), Len(V))

HasCycle == \E n \in Nodes : n \in Ancestors(n)

\* x.input_lst.append(y); y.output_lst.append(x): y becomes an input of x.
add_edge(x, y) ==
    /\ input_lst' = [input_lst EXCEPT ![x] = Append(@, y)]
    /\ output_lst' = [output_lst EXCEPT ![y] = Append(@, x)]
    /\ last' = Call("add_edge", "ok", None)
    /\ UNCHANGED <<V, order, _active_graph, kind, value, derivative, visited>>

\* Only an edge that closes a cycle, and only the first one.
NextCycle ==
    \/ Next
    \/ \E x, y \in Nodes :
           /\ ~HasCycle
           /\ (x = y \/ x \in Ancestors(y))
           /\ add_edge(x, y)

SpecCycle == Init /\ [][NextCycle]_vars

(***************************************************************************)
(* Properties.                                                             *)
(***************************************************************************)

\* The position of node n in the list ord.
IndexOf(ord, n) == CHOOSE i \in 1..Len(ord) : ord[i] = n

\* Exactly one node without consumers.
SingleSink == Cardinality({n \in Nodes : output_lst[n] = << >>}) = 1

LastRegistered == V[Len(V)]

AllValuesSet == \A n \in Nodes : value[n] # None

\* C1: once forward() has computed the order, the order holds every
\* registered node once, and every producer (an input of a consumer) stands
\* strictly before its consumer.
C1_TopologicalOrder ==
    (last.op = "forward" \/ Truthy(order)) =>
        /\ order # None
        /\ Len(order[1]) = Len(V)
        /\ \A n \in Nodes : \E i \in 1..Len(order[1]) : order[1][i] = n
        /\ \A c \in Nodes : \A p \in Inputs(c) :
               IndexOf(order[1], p) < IndexOf(order[1], c)

\* An order was computed for a graph in which an operation consumes an operation.
C1_Witness ==
    /\ last.op = "forward"
    /\ Truthy(order)
    /\ \E c \in Nodes : \E p \in Inputs(c) : IsBinaryOperation(p)

\* C2 as amended: a forward() that returns, on a graph whose only node
\* without consumers is the last-registered one, returns that node's value.
C2_ReturnsSingleSink ==
    (last.op = "forward" /\ last.outcome = "ok" /\ SingleSink) =>
        last.ret = value[LastRegistered]

\* forward() returned the value of an operation that is the only sink.
C2_Witness ==
    /\ last.op = "forward" /\ last.outcome = "ok" /\ SingleSink
    /\ Len(V) >= 3
    /\ IsBinaryOperation(LastRegistered)
    /\ last.ret # None

\* C2 as stated: a forward() that returns, returns the value of the
\* last-registered node, however many nodes have no consumers.
C2_ReturnsLastRegistered ==
    (last.op = "forward" /\ last.outcome = "ok") =>
        last.ret = value[LastRegistered]

ExampleLeaves ==
    /\ value[1] = Some(5)
    /\ value[2] = Some(3)
    /\ value[3] = Some(2)
    /\ value[4] = Some(3)

\* C3: on the graph of the script with a=5, b=3, c=2, d=3, forward()
\* returns 33, and the backward() that follows it completes with
\* a.derivative = 3, b.derivative = 6, c.derivative = 9, d.derivative = 11.
C3_EndToEnd ==
    [][ /\ (ExampleGraph /\ ExampleLeaves /\ last'.op = "forward") =>
               last' = Call("forward", "ok", Some(33))
        /\ (/\ ExampleGraph /\ ExampleLeaves
            /\ last.op = "forward" /\ last.outcome = "ok"
            /\ last'.op = "backward") =>
               /\ last'.outcome = "ok"
               /\ derivative'[1] = Some(3)
               /\ derivative'[2] = Some(6)
               /\ derivative'[3] = Some(9)
               /\ derivative'[4] = Some(11) ]_vars

\* backward() was called on the script's graph evaluated with a=5, b=3, c=2, d=3.
C3_Witness ==
    /\ ExampleGraph /\ ExampleLeaves
    /\ last.op = "backward"
    /\ value[7] # None /\ value[7] = Some(value[4][1] * value[6][1])
    /\ value[6] = Some(value[1][1] + value[5][1])
    /\ value[5] = Some(value[2][1] * value[3][1])

\* C4: once forward() was called, constructing a node in the re-opened
\* scope fails with the frozen-graph error (ValueError) and leaves the node
\* list and the order as they were.
C4_FrozenGraph ==
    [][ (order # None /\ _active_graph # None /\ last'.op \in Constructors) =>
            (last'.outcome = "ValueError" /\ V' = V /\ order' = order) ]_vars

\* C5: backward() with no order computed fails with the
\* backward-before-forward error and assigns no derivative.
C5_BackwardBeforeForward ==
    [][ (order = None /\ last'.op = "backward") =>
            (last'.outcome = "BackwardBeforeForwardError"
             /\ derivative' = derivative) ]_vars

\* C6: forward() on a graph whose edges hold a cycle fails with the
\* explicit cycle error.
C6_CycleRejected ==
    [][ (HasCycle /\ last'.op = "forward") =>
            last'.outcome = "CycleError" ]_vars

\* Some leaf the root depends on (the root itself when it is a leaf) has no value.
UnsetReachableLeaf ==
    /\ Len(V) > 0
    /\ \E n \in Ancestors(LastRegistered) \cup {LastRegistered} :
           kind[n] \in LeafKinds /\ value[n] = None

\* C7: forward() called while a leaf reachable from the root has no value
\* fails with the uninitialized-input error and returns nothing.
C7_UninitializedInput ==
    [][ (UnsetReachableLeaf /\ last'.op = "forward") =>
            last'.outcome = "UninitializedInputError" ]_vars

\* C8 as amended: on a graph with exactly one node without consumers, the
\* backward() that follows a forward() with all leaf values set completes
\* and leaves every registered node with its derivative set.
C8_DerivativesSetSingleSink ==
    [][ (/\ last.op = "forward" /\ last.outcome = "ok"
         /\ AllValuesSet /\ SingleSink
         /\ last'.op = "backward") =>
            (last'.outcome = "ok" /\ \A n \in Nodes : derivative'[n] # None) ]_vars

\* backward() completed on a single-sink graph of three nodes or more.
C8_Witness ==
    /\ last.op = "backward" /\ last.outcome = "ok"
    /\ AllValuesSet /\ SingleSink /\ Len(V) >= 3

\* C8 as stated: the same on every graph, whatever its nodes without consumers.
C8_DerivativesSet ==
    [][ (/\ last.op = "forward" /\ last.outcome = "ok"
         /\ AllValuesSet
         /\ last'.op = "backward") =>
            (last'.outcome = "ok" /\ \A n \in Nodes : derivative'[n] # None) ]_vars

\* C9: every __exit__, whatever the block ended with, leaves _active_graph
\* cleared; and a constructor called while it is cleared is rejected and
\* registers nothing, adds no edge.
C9_ScopeExitClears ==
    [][ /\ (last'.op = "__exit__") => (_active_graph' = None)
        /\ (_active_graph = None /\ last'.op \in Constructors) =>
               /\ last'.outcome = "AttributeError"
               /\ V' = V
               /\ input_lst' = input_lst
               /\ output_lst' = output_lst ]_vars

\* A constructor was rejected after the scope of a graph that holds nodes
\* was closed.
C9_Witness ==
    /\ last.op \in Constructors /\ last.outcome = "AttributeError"
    /\ _active_graph = None
    /\ Len(V) > 0

\* The consumer of n that the reverse walk processes last: the one earliest
\* in the order.
FirstConsumer(n) ==
    CHOOSE c \in Consumers(n) :
        \A c2 \in Consumers(n) : IndexOf(order[1], c) <= IndexOf(order[1], c2)

\* C10: after a backward() that completed, every node that is an input of
\* some operation holds the contribution of one consumer only, the consumer
\* earliest in the order: partial_derivative_c(n) * c.derivative.
C10_LastConsumerWins ==
    (last.op = "backward" /\ last.outcome = "ok") =>
        \A n \in Nodes : Consumers(n) # {} =>
            LET c == FirstConsumer(n)
            IN  derivative[n] =
                    Some(partial_derivative(c, n, value)[1] * derivative[c][1])

\* backward() completed on a graph with a node consumed by two operations.
C10_Witness ==
    /\ last.op = "backward" /\ last.outcome = "ok"
    /\ \E n \in Nodes : Cardinality(Consumers(n)) >= 2
====
